---- MODULE Spec2Model ----
(***************************************************************************)
(* A model of pidash (src/src/main.rs): the counter readers and metric     *)
(* derivers behind the live endpoints, the background sampler, the SQLite  *)
(* table 'values' and the /history range query.                            *)
(*                                                                         *)
(* Text is modelled as a sequence of character codes, so that parsing,     *)
(* formatting and SQLite's byte-wise text comparison are computed and not  *)
(* assumed.  A line of a counter file is a label (the first whitespace     *)
(* separated token) and the tokens after it.  f64 values are exact         *)
(* fractions plus NaN; the rounding error of f64 arithmetic is not         *)
(* modelled.                                                               *)
(***************************************************************************)
EXTENDS Integers, Sequences, FiniteSets, TLC

VARIABLES probe, resp, rows, seq, clock, pc, s_cpu, s_mem, s_disk, log

vars == <<probe, resp, rows, seq, clock, pc, s_cpu, s_mem, s_disk, log>>

(***************************************************************************)
(* Bounds of the model.                                                    *)
(***************************************************************************)
MaxClock == 2
MaxRows == 2
TicksPerDay == 2

(***************************************************************************)
(* Text.                                                                   *)
(***************************************************************************)
CH_SPACE == 32
CH_MINUS == 45
CH_ZERO == 48
CH_T == 84
CH_Z == 90

Dec(ds) == [i \in 1..Len(ds) |-> CH_ZERO + ds[i]]

IsDigits(s) == Len(s) > 0 /\ \A i \in 1..Len(s) : s[i] \in CH_ZERO..(CH_ZERO + 9)

RECURSIVE StripZeros(_)
StripZeros(s) ==
    IF Len(s) > 1 /\ s[1] = CH_ZERO THEN StripZeros(Tail(s)) ELSE s

RECURSIVE LexLess(_, _)
\* memcmp order of two texts: the first differing byte decides, a proper
\* prefix sorts first.
LexLess(a, b) ==
    IF Len(b) = 0 THEN FALSE
    ELSE IF Len(a) = 0 THEN TRUE
    ELSE IF a[1] # b[1] THEN a[1] < b[1]
    ELSE LexLess(Tail(a), Tail(b))

LexLeq(a, b) == a = b \/ LexLess(a, b)

RECURSIVE ParseNat(_)
ParseNat(s) ==
    IF Len(s) = 0 THEN 0
    ELSE 10 * ParseNat(SubSeq(s, 1, Len(s) - 1)) + (s[Len(s)] - CH_ZERO)

RECURSIVE NatToDec(_)
NatToDec(n) ==
    IF n < 10 THEN <<CH_ZERO + n>>
    ELSE Append(NatToDec(n \div 10), CH_ZERO + (n % 10))

IntToDec(n) == IF n < 0 THEN <<CH_MINUS>> \o NatToDec(0 - n) ELSE NatToDec(n)

I32_MAX == 2147483647
I32_MAX_TEXT == Dec(<<2, 1, 4, 7, 4, 8, 3, 6, 4, 7>>)

\* A canonical (no leading zeros) digit text denotes a value an i32 holds.
FitsI32(s) ==
    \/ Len(s) < Len(I32_MAX_TEXT)
    \/ Len(s) = Len(I32_MAX_TEXT) /\ LexLeq(s, I32_MAX_TEXT)

\* str::parse::<i32>: an optional '-' and decimal digits, Err when the text is
\* not of that form or the value does not fit 32 bits (i32::MIN itself is
\* outside the inputs of this model).
ParseI32(s) ==
    LET neg == Len(s) > 0 /\ s[1] = CH_MINUS
        mag == IF neg THEN Tail(s) ELSE s
    IN  IF IsDigits(mag) /\ FitsI32(StripZeros(mag))
        THEN [ok |-> TRUE,
              v |-> IF neg THEN 0 - ParseNat(StripZeros(mag))
                    ELSE ParseNat(StripZeros(mag))]
        ELSE [ok |-> FALSE, v |-> 0]

\* str::parse::<f64> on the texts of this model: unsigned decimal integers
\* small enough to be exact, everything else is Err.
ParseF64(s) ==
    IF IsDigits(s) /\ FitsI32(StripZeros(s))
    THEN [ok |-> TRUE, v |-> ParseNat(StripZeros(s))]
    ELSE [ok |-> FALSE, v |-> 0]

(***************************************************************************)
(* f64 values: NaN, or the exact fraction n/d in lowest terms.             *)
(***************************************************************************)
RECURSIVE GCD(_, _)
GCD(a, b) == IF b = 0 THEN a ELSE GCD(b, a % b)

NaN == [nan |-> TRUE, n |-> 0, d |-> 1]
Frac(n, d) == LET g == GCD(n, d) IN [nan |-> FALSE, n |-> n \div g, d |-> d \div g]
F64Zero == [nan |-> FALSE, n |-> 0, d |-> 1]

\* a / b * 100.0 for non-negative a, b; 0/0 is NaN.  (x/0 with x > 0 is
\* infinite and does not arise: the callers have a <= b.)
RatioTimes100(a, b) == IF b = 0 THEN NaN ELSE Frac(100 * a, b)

\* (used as f64 / total as f64 * 100.0).round() as i32: round half away from
\* zero, and the saturating cast: NaN becomes 0, +-infinity the i32 limits.
RoundPercentI32(used, total) ==
    IF total = 0
    THEN IF used = 0 THEN 0 ELSE IF used > 0 THEN I32_MAX ELSE 0 - I32_MAX - 1
    ELSE IF used >= 0
         THEN (200 * used + total) \div (2 * total)
         ELSE 0 - ((200 * (0 - used) + total) \div (2 * total))

(***************************************************************************)
(* Counter sources.  A file is readable or not; a readable file is a       *)
(* sequence of lines, a line its label and the tokens after the label.     *)
(***************************************************************************)
Line(label, fields) == [label |-> label, fields |-> fields]
File(lines) == [ok |-> TRUE, lines |-> lines]
Unreadable == [ok |-> FALSE, lines |-> <<>>]

\* lines().find(..): the index of the first of the accepted lines, 0 when
\* there is none.
FindLine(accepted) ==
    IF accepted = {} THEN 0
    ELSE CHOOSE i \in accepted : \A j \in accepted : i <= j

\* starts_with("cpu "): the label is exactly cpu and a blank follows it.
IsCpuLine(l) == l.label = "cpu" /\ Len(l.fields) >= 1
IsMemTotalLine(l) == l.label = "MemTotal:"
IsMemAvailableLine(l) == l.label = "MemAvailable:"
CpuLineOf(lines) == FindLine({i \in 1..Len(lines) : IsCpuLine(lines[i])})
MemTotalLineOf(lines) == FindLine({i \in 1..Len(lines) : IsMemTotalLine(lines[i])})
MemAvailableLineOf(lines) == FindLine({i \in 1..Len(lines) : IsMemAvailableLine(lines[i])})

\* u.parse::<f64>().unwrap_or(0.0)
F64OrZero(tok) == IF ParseF64(tok).ok THEN ParseF64(tok).v ELSE 0
\* t.parse::<i32>().unwrap_or(0)
I32OrZero(tok) == IF ParseI32(tok).ok THEN ParseI32(tok).v ELSE 0

CpuValue(v) == [panic |-> FALSE, v |-> v]
CpuPanic == [panic |-> TRUE, v |-> F64Zero]

cpu_usage(src) ==
    IF ~src.ok THEN CpuValue(F64Zero)
    ELSE LET i == CpuLineOf(src.lines) IN
         IF i = 0 THEN CpuPanic
         ELSE LET f == src.lines[i].fields IN
              IF Len(f) < 7 THEN CpuValue(F64Zero)
              ELSE LET cpu_user == F64OrZero(f[1])
                       cpu_nice == F64OrZero(f[2])
                       cpu_system == F64OrZero(f[3])
                       cpu_idle == F64OrZero(f[4])
                       cpu_iowait == F64OrZero(f[5])
                       cpu_irq == F64OrZero(f[6])
                       cpu_softirq == F64OrZero(f[7])
                       cpu_total == cpu_user + cpu_system + cpu_iowait + cpu_irq
                                    + cpu_softirq + cpu_nice + cpu_idle
                   IN  CpuValue(RatioTimes100(cpu_total - cpu_idle, cpu_total))

MemValue(total, used) == [panic |-> FALSE, total |-> total, used |-> used]
MemPanic == [panic |-> TRUE, total |-> 0, used |-> 0]

\* mem_usage with the read unwrapped instead of matched: an unreadable
\* /proc/meminfo panics.
mem_usage_unwrap(src) ==
    IF ~src.ok THEN MemPanic
    ELSE LET t == MemTotalLineOf(src.lines)
             a == MemAvailableLineOf(src.lines)
         IN  IF t = 0 \/ a = 0 THEN MemPanic
             ELSE IF Len(src.lines[t].fields) < 1 \/ Len(src.lines[a].fields) < 1
                  THEN MemValue(0, 0)
                  ELSE MemValue(I32OrZero(src.lines[t].fields[1]),
                                I32OrZero(src.lines[t].fields[1])
                                - I32OrZero(src.lines[a].fields[1]))

\* The texts of this model are non-negative, so mem_total - mem_avail stays
\* inside i32.
mem_usage(src) ==
    IF ~src.ok THEN MemValue(0, 0)
    ELSE LET t == MemTotalLineOf(src.lines) IN
         IF t = 0 THEN MemPanic
         ELSE IF Len(src.lines[t].fields) < 1 THEN MemValue(0, 0)
         ELSE LET mem_total == I32OrZero(src.lines[t].fields[1])
                  a == MemAvailableLineOf(src.lines)
              IN  IF a = 0 THEN MemPanic
                  ELSE IF Len(src.lines[a].fields) < 1 THEN MemValue(0, 0)
                  ELSE LET mem_avail == I32OrZero(src.lines[a].fields[1])
                       IN  MemValue(mem_total, mem_total - mem_avail)

\* The df command: it cannot be started, it exits with a failure status, or
\* it succeeds with the lines of its output.
Df(run, lines) == [run |-> run, lines |-> lines]
STR_0 == Dec(<<0>>)
DiskValue(total, used, free) ==
    [panic |-> FALSE, total |-> total, used |-> used, free |-> free]
DiskPanic == [panic |-> TRUE, total |-> <<>>, used |-> <<>>, free |-> <<>>]

\* unwrap_or(&df_lines[1]) evaluates its argument before the call: fewer than
\* two lines panic whatever skip(3) finds.  parts[0] is the label of the line.
disk_usage(src) ==
    IF src.run # "ok" THEN DiskValue(STR_0, STR_0, STR_0)
    ELSE IF Len(src.lines) < 2 THEN DiskPanic
    ELSE LET root_line == IF Len(src.lines) >= 4 THEN src.lines[4] ELSE src.lines[2]
             parts == root_line.fields
         IN  IF Len(parts) < 3 THEN DiskPanic
             ELSE DiskValue(parts[1], parts[2], parts[3])

(***************************************************************************)
(* The live endpoints.  A response is the JSON body the handler returns,   *)
(* or the panic that ends the handler without one.                         *)
(***************************************************************************)
NoResp == [ep |-> "none", kind |-> "none", ints |-> <<>>, strs |-> <<>>, f |-> F64Zero]
Ok(ep, ints, strs, f) == [ep |-> ep, kind |-> "ok", ints |-> ints, strs |-> strs, f |-> f]
Error(ep) == [ep |-> ep, kind |-> "error", ints |-> <<>>, strs |-> <<>>, f |-> F64Zero]
Panic(ep) == [ep |-> ep, kind |-> "panic", ints |-> <<>>, strs |-> <<>>, f |-> F64Zero]

\* A single-value file: readable or not, and its content after trim().
Text(text) == [ok |-> TRUE, text |-> text]
NoText == [ok |-> FALSE, text |-> <<>>]

get_cpu_temp(src) ==
    IF ~src.ok THEN Error("cpu_temp")
    ELSE IF ~ParseI32(src.text).ok THEN Panic("cpu_temp")
    ELSE Ok("cpu_temp", <<ParseI32(src.text).v>>, <<>>, F64Zero)

get_fan_speed(src) ==
    IF ~src.ok THEN Error("fan_speed")
    ELSE IF ~ParseI32(src.text).ok THEN Panic("fan_speed")
    ELSE Ok("fan_speed", <<ParseI32(src.text).v>>, <<>>, F64Zero)

\* /proc/uptime: readable or not, and its whitespace separated tokens.
Tokens(toks) == [ok |-> TRUE, toks |-> toks]
NoTokens == [ok |-> FALSE, toks |-> <<>>]

get_uptime(src) ==
    IF ~src.ok THEN Error("uptime")
    ELSE IF Len(src.toks) = 0 THEN Error("uptime")
    ELSE Ok("uptime", <<F64OrZero(src.toks[1]) * 1000>>, <<>>, F64Zero)

\* ints: mem_used, mem_total, mem_percent
get_mem_usage(src) ==
    LET m == mem_usage(src) IN
    IF m.panic THEN Panic("mem_usage")
    ELSE Ok("mem_usage", <<m.used, m.total, RoundPercentI32(m.used, m.total)>>, <<>>, F64Zero)

\* strs: total, used, free; ints: percent
get_disk_usage(src) ==
    LET d == disk_usage(src) IN
    IF d.panic THEN Panic("disk_usage")
    ELSE IF ~ParseF64(d.used).ok \/ ~ParseF64(d.total).ok THEN Panic("disk_usage")
    ELSE Ok("disk_usage", <<RoundPercentI32(ParseF64(d.used).v, ParseF64(d.total).v)>>,
            <<d.total, d.used, d.free>>, F64Zero)

\* f: cpu_usage (json! writes a NaN as null)
get_cpu_usage(src) ==
    LET c == cpu_usage(src) IN
    IF c.panic THEN Panic("cpu_usage")
    ELSE Ok("cpu_usage", <<>>, <<>>, c.v)

(***************************************************************************)
(* The contents the counter sources are probed with.                       *)
(***************************************************************************)
STR_x == <<120>>
STR_100 == Dec(<<1, 0, 0>>)
STR_1000 == Dec(<<1, 0, 0, 0>>)
STR_400 == Dec(<<4, 0, 0>>)
STR_33 == Dec(<<3, 3>>)
STR_67 == Dec(<<6, 7>>)
STR_5 == Dec(<<5>>)
STR_45000 == Dec(<<4, 5, 0, 0, 0>>)
\* 4294967296 kB and 3000000000 1K-blocks: more than an i32 holds
STR_4294967296 == Dec(<<4, 2, 9, 4, 9, 6, 7, 2, 9, 6>>)
STR_3000000000 == Dec(<<3, 0, 0, 0, 0, 0, 0, 0, 0, 0>>)

CpuLine(fields) == Line("cpu", fields)
Cpu0Line == Line("cpu0", <<STR_5, STR_0, STR_5, STR_100, STR_0, STR_0, STR_0>>)
StatExample ==
    File(<<CpuLine(<<STR_100, STR_0, Dec(<<5, 0>>), Dec(<<7, 0, 0>>), Dec(<<2, 0>>),
                     STR_5, STR_5>>), Cpu0Line>>)
StatZero == File(<<CpuLine(<<STR_0, STR_0, STR_0, STR_0, STR_0, STR_0, STR_0>>), Cpu0Line>>)
StatIdle == File(<<CpuLine(<<STR_0, STR_0, STR_0, STR_5, STR_0, STR_0, STR_0>>), Cpu0Line>>)
StatShort == File(<<CpuLine(<<STR_100, STR_0, STR_5>>), Cpu0Line>>)
StatNoCpu == File(<<Cpu0Line>>)

MemLines(total, avail) ==
    File(<<Line("MemTotal:", total), Line("MemFree:", <<STR_5, <<107, 66>>>>),
           Line("MemAvailable:", avail)>>)
MemExample == MemLines(<<STR_1000, <<107, 66>>>>, <<STR_400, <<107, 66>>>>)
MemHuge == MemLines(<<STR_4294967296, <<107, 66>>>>, <<STR_400, <<107, 66>>>>)
MemZero == MemLines(<<STR_0, <<107, 66>>>>, <<STR_0, <<107, 66>>>>)
MemNoValue == MemLines(<<>>, <<STR_400, <<107, 66>>>>)
MemNoTotal == File(<<Line("MemFree:", <<STR_5, <<107, 66>>>>)>>)

DfHeader == Line("Filesystem", <<STR_x, STR_x, STR_x, STR_x, STR_x>>)
DfRow(label, total, used, free) == Line(label, <<total, used, free, STR_x, STR_x>>)
DfExample ==
    Df("ok", <<DfHeader, DfRow("udev", STR_5, STR_0, STR_5), DfRow("tmpfs", STR_5, STR_0, STR_5),
               DfRow("/dev/root", STR_100, STR_33, STR_67)>>)
DfHuge ==
    Df("ok", <<DfHeader, DfRow("udev", STR_5, STR_0, STR_5), DfRow("tmpfs", STR_5, STR_0, STR_5),
               DfRow("/dev/root", STR_3000000000, STR_33, STR_67)>>)
DfTwoLines == Df("ok", <<DfHeader, DfRow("/dev/root", STR_100, STR_67, STR_33)>>)
DfOneLine == Df("ok", <<DfHeader>>)
DfShortRow ==
    Df("ok", <<DfHeader, DfRow("udev", STR_5, STR_0, STR_5), DfRow("tmpfs", STR_5, STR_0, STR_5),
               Line("/dev/root", <<STR_100>>)>>)
DfDash ==
    Df("ok", <<DfHeader, DfRow("udev", STR_5, STR_0, STR_5), DfRow("tmpfs", STR_5, STR_0, STR_5),
               DfRow("none", <<CH_MINUS>>, <<CH_MINUS>>, <<CH_MINUS>>)>>)
DfSpawnFailed == Df("spawn_failed", <<>>)
DfExitFailure == Df("exit_failure", <<>>)

ThermalSources == {NoText, Text(STR_45000), Text(<<>>)}
FanSources == {NoText, Text(STR_1000)}
UptimeSources == {NoTokens, Tokens(<<STR_1000, STR_400>>), Tokens(<<>>)}
StatSources == {Unreadable, StatExample, StatZero, StatIdle, StatShort, StatNoCpu}
MeminfoSources == {Unreadable, MemExample, MemHuge, MemZero, MemNoValue, MemNoTotal}
DfSources == {DfSpawnFailed, DfExitFailure, DfExample, DfTwoLines, DfOneLine, DfShortRow, DfDash}

Probes ==
    [thermal : ThermalSources, fan : FanSources, uptime : UptimeSources,
     stat : StatSources, meminfo : MeminfoSources, df : DfSources]

\* The sources as the sampler and a running service find them.
Healthy ==
    [thermal |-> Text(STR_45000), fan |-> Text(STR_1000),
     uptime |-> Tokens(<<STR_1000, STR_400>>),
     stat |-> StatExample, meminfo |-> MemExample, df |-> DfExample]

(***************************************************************************)
(* The table 'values' of history.db.  A stored value is NULL, an INTEGER   *)
(* (its decimal text: 64 bits), a REAL or a TEXT.                          *)
(***************************************************************************)
SqlNull == [t |-> "null", s |-> <<>>, f |-> F64Zero]
SqlInt(text) == [t |-> "int", s |-> text, f |-> F64Zero]
SqlReal(f) == [t |-> "real", s |-> <<>>, f |-> f]
SqlText(text) == [t |-> "text", s |-> text, f |-> F64Zero]

\* params![cpu_usage, ..]: an f64 is bound as a double, and SQLite stores a
\* NaN double as NULL.
BindF64(v) == IF v.nan THEN SqlNull ELSE SqlReal(v)
\* params![.., mem_usage.0, mem_usage.1, ..]
BindI32(n) == SqlInt(IntToDec(n))
\* params![.., disk_usage.0, ..] into a column declared INTEGER: a text that
\* is a well-formed integer is converted, any other text is stored as it is.
BindStringToInteger(text) ==
    LET neg == Len(text) > 0 /\ text[1] = CH_MINUS
        mag == IF neg THEN Tail(text) ELSE text
    IN  IF IsDigits(mag)
        THEN SqlInt(IF neg /\ StripZeros(mag) # STR_0
                    THEN <<CH_MINUS>> \o StripZeros(mag) ELSE StripZeros(mag))
        ELSE SqlText(text)

Two(n) == <<CH_ZERO + (n \div 10), CH_ZERO + (n % 10)>>
\* The clock counts ticks; a day has TicksPerDay of them and day 0 is
\* 1970-01-01, which lies before every reading of the clock.
DayOf(c) == 1 + (c \div TicksPerDay)
TimeOf(c) == c % TicksPerDay
\* DEFAULT CURRENT_TIMESTAMP: "YYYY-MM-DD HH:MM:SS"
CURRENT_TIMESTAMP(c) == Two(DayOf(c)) \o <<CH_SPACE>> \o Two(TimeOf(c))
\* An ISO-8601 instant, "YYYY-MM-DDTHH:MM:SSZ"
Iso8601(c) == Two(DayOf(c)) \o <<CH_T>> \o Two(TimeOf(c)) \o <<CH_Z>>
\* "1970-01-01T00:00:00Z"
first == Two(0) \o <<CH_T>> \o Two(0) \o <<CH_Z>>
\* "now"
last == <<110, 111, 119>>
DefaultLimit == 100

\* An INSERT of the cpu and memory columns only, the disk columns left to a
\* later statement: the row is visible with its disk columns still 0.
InsertedRowInParts(lastId, cpu, mem, disk, now) ==
    [id |-> lastId + 1,
     cpu_usage |-> BindF64(cpu),
     mem_total |-> BindI32(mem.total),
     mem_used |-> BindI32(mem.used),
     disk_total |-> BindI32(0),
     disk_used |-> BindI32(0),
     disk_free |-> BindI32(0),
     timestamp |-> SqlText(CURRENT_TIMESTAMP(now))]

\* INSERT INTO 'values' (cpu_usage, .., disk_free) VALUES (?, ?, ?, ?, ?, ?)
\* with id INTEGER PRIMARY KEY AUTOINCREMENT and the default timestamp.
InsertedRow(lastId, cpu, mem, disk, now) ==
    [id |-> lastId + 1,
     cpu_usage |-> BindF64(cpu),
     mem_total |-> BindI32(mem.total),
     mem_used |-> BindI32(mem.used),
     disk_total |-> BindStringToInteger(disk.total),
     disk_used |-> BindStringToInteger(disk.used),
     disk_free |-> BindStringToInteger(disk.free),
     timestamp |-> SqlText(CURRENT_TIMESTAMP(now))]

\* A start-up that creates the table afresh, dropping the one it finds.
ensureSchemaAfresh(table) == <<>>

\* CREATE TABLE IF NOT EXISTS 'values' on a store that has the table.
ensureSchema(table) == table

\* row.get::<_, f64>, row.get::<_, i32>, row.get::<_, String>
GetF64(v) ==
    IF v.t = "real" THEN [ok |-> TRUE, v |-> v.f]
    ELSE IF v.t = "int" /\ FitsI32(v.s) /\ v.s[1] # CH_MINUS
         THEN [ok |-> TRUE, v |-> Frac(ParseNat(v.s), 1)]
    ELSE [ok |-> FALSE, v |-> F64Zero]
GetI32(v) ==
    IF v.t = "int" /\ ParseI32(v.s).ok THEN [ok |-> TRUE, v |-> ParseI32(v.s).v]
    ELSE [ok |-> FALSE, v |-> 0]
GetString(v) ==
    IF v.t = "text" THEN [ok |-> TRUE, v |-> v.s] ELSE [ok |-> FALSE, v |-> <<>>]

\* The closure of query_map: the row as JSON, or the first conversion error.
ReadRow(r) ==
    [ok |-> /\ GetF64(r.cpu_usage).ok
            /\ GetI32(r.mem_total).ok /\ GetI32(r.mem_used).ok
            /\ GetI32(r.disk_total).ok /\ GetI32(r.disk_used).ok
            /\ GetI32(r.disk_free).ok
            /\ GetString(r.timestamp).ok,
     v |-> [cpu_usage |-> GetF64(r.cpu_usage).v,
            mem_total |-> GetI32(r.mem_total).v,
            mem_used |-> GetI32(r.mem_used).v,
            disk_total |-> GetI32(r.disk_total).v,
            disk_used |-> GetI32(r.disk_used).v,
            disk_free |-> GetI32(r.disk_free).v,
            timestamp |-> GetString(r.timestamp).v]]

\* WHERE timestamp BETWEEN ? AND ?: the timestamps and both bounds are texts
\* that are not numbers, so SQLite compares them byte by byte.
Between(ts, from, to) == LexLeq(from, ts.s) /\ LexLeq(ts.s, to)

\* ORDER BY timestamp DESC: every arrangement of the selected rows in which
\* the timestamps do not increase (SQLite leaves the order of ties open).
DescOrders(table, sel) ==
    {o \in [1..Cardinality(sel) -> sel] :
        /\ \A i, j \in 1..Cardinality(sel) : i # j => o[i] # o[j]
        /\ \A i \in 1..(Cardinality(sel) - 1) :
              LexLeq(table[o[i + 1]].timestamp.s, table[o[i]].timestamp.s)}

Some(v) == [some |-> TRUE, v |-> v]
None == [some |-> FALSE, v |-> <<>>]

\* params.get("limit").and_then(|s| s.parse::<usize>().ok()).unwrap_or(100)
LimitOf(param) ==
    IF param.some /\ IsDigits(param.v) /\ FitsI32(StripZeros(param.v))
    THEN ParseNat(StripZeros(param.v)) ELSE DefaultLimit

Min(a, b) == IF a < b THEN a ELSE b

HistoryError(err) ==
    [ep |-> "history", kind |-> "error", err |-> err, data |-> <<>>,
     from |-> <<>>, to |-> <<>>, limit |-> 0, params |-> [from |-> None, to |-> None, limit |-> None]]

\* get_history once the connection is open; order is the arrangement the
\* ORDER BY produced.
HistoryResponse(params, table, order) ==
    LET from == IF params.from.some THEN params.from.v ELSE first
        to == IF params.to.some THEN params.to.v ELSE last
        limit == LimitOf(params.limit)
        fetched == [i \in 1..Min(limit, Len(order)) |-> ReadRow(table[order[i]])]
    IN  IF \E i \in 1..Len(fetched) : ~fetched[i].ok
        THEN [HistoryError("row") EXCEPT !.from = from, !.to = to, !.limit = limit,
                                         !.params = params]
        ELSE [ep |-> "history", kind |-> "data", err |-> "none",
              data |-> [i \in 1..Len(fetched) |-> fetched[i].v],
              from |-> from, to |-> to, limit |-> limit, params |-> params]

Selected(params, table) ==
    {i \in 1..Len(table) :
        Between(table[i].timestamp,
                IF params.from.some THEN params.from.v ELSE first,
                IF params.to.some THEN params.to.v ELSE last)}

(***************************************************************************)
(* The service: the sampler task of main, the table and /history.          *)
(*   rows, seq   the table 'values' and the last id AUTOINCREMENT gave out *)
(*   clock       the wall clock                                            *)
(*   pc          where the sampler task is: not spawned yet, at one of the *)
(*               steps of value_logging, asleep, or ended by a panic       *)
(*   s_cpu, s_mem, s_disk   the locals of value_logging                    *)
(*   log         what each successful INSERT was given, in order           *)
(*   resp        the response of the request being handled, until it is    *)
(*               sent; the model follows one request at a time             *)
(*   probe       the sources a live request reads                          *)
(***************************************************************************)
SamplerStat == {StatExample, StatZero, Unreadable, StatNoCpu}
SamplerMeminfo == {MemExample, MemNoTotal}
SamplerDf == {DfExample, DfHuge, DfOneLine}

NoMem == MemValue(0, 0)
NoDisk == DiskValue(<<>>, <<>>, <<>>)

\* The requests: bounds at the first instants of the clock, limits up to the
\* size of the table.
QueryInstants == {0, 1}
Requests ==
    [from : {None} \cup {Some(Iso8601(c)) : c \in QueryInstants},
     to : {None} \cup {Some(Iso8601(c)) : c \in QueryInstants},
     limit : {None} \cup {Some(NatToDec(n)) : n \in 0..MaxRows}]

Init ==
    /\ probe = Healthy
    /\ resp = NoResp
    /\ rows = <<>>
    /\ seq = 0
    /\ clock = 0
    /\ pc = "boot"
    /\ s_cpu = F64Zero
    /\ s_mem = NoMem
    /\ s_disk = NoDisk
    /\ log = <<>>

\* tokio::spawn of the sampler loop, which starts with a cycle.
Spawn ==
    /\ pc = "boot"
    /\ pc' = "cpu"
    /\ resp' = NoResp
    /\ UNCHANGED <<probe, rows, seq, clock, s_cpu, s_mem, s_disk, log>>

\* let cpu_usage = cpu_usage();
SampleCpu ==
    /\ pc = "cpu"
    /\ \E src \in SamplerStat :
          LET c == cpu_usage(src) IN
          /\ pc' = IF c.panic THEN "panicked" ELSE "mem"
          /\ s_cpu' = c.v
    /\ resp' = NoResp
    /\ UNCHANGED <<probe, rows, seq, clock, s_mem, s_disk, log>>

\* let mem_usage = mem_usage();
SampleMem ==
    /\ pc = "mem"
    /\ \E src \in SamplerMeminfo :
          LET m == mem_usage(src) IN
          /\ pc' = IF m.panic THEN "panicked" ELSE "disk"
          /\ s_mem' = IF m.panic THEN NoMem ELSE MemValue(m.total, m.used)
          /\ s_cpu' = IF m.panic THEN F64Zero ELSE s_cpu
    /\ resp' = NoResp
    /\ UNCHANGED <<probe, rows, seq, clock, s_disk, log>>

\* let disk_usage = disk_usage();
SampleDisk ==
    /\ pc = "disk"
    /\ \E src \in SamplerDf :
          LET d == disk_usage(src) IN
          /\ pc' = IF d.panic THEN "panicked" ELSE "persist"
          /\ s_disk' = IF d.panic THEN NoDisk ELSE DiskValue(d.total, d.used, d.free)
          /\ s_cpu' = IF d.panic THEN F64Zero ELSE s_cpu
          /\ s_mem' = IF d.panic THEN NoMem ELSE s_mem
    /\ resp' = NoResp
    /\ UNCHANGED <<probe, rows, seq, clock, log>>

\* Connection::open and the INSERT: either fails and is logged, or the row is
\* added in one statement.  value_logging returns in every case.
Persist ==
    /\ pc = "persist"
    /\ \E outcome \in {"open_failed", "insert_failed", "inserted"} :
          IF outcome = "inserted"
          THEN /\ Len(rows) < MaxRows
               /\ LET r == InsertedRow(seq, s_cpu, s_mem, s_disk, clock) IN
                  /\ rows' = Append(rows, r)
                  /\ seq' = r.id
                  /\ log' = Append(log, [cpu |-> s_cpu, mem |-> s_mem, disk |-> s_disk,
                                         at |-> clock, row |-> r])
          ELSE UNCHANGED <<rows, seq, log>>
    /\ pc' = "sleep"
    /\ s_cpu' = F64Zero
    /\ s_mem' = NoMem
    /\ s_disk' = NoDisk
    /\ resp' = NoResp
    /\ UNCHANGED <<probe, clock>>

\* sleep(Duration::from_secs(60)).await
Sleep ==
    /\ pc = "sleep"
    /\ clock < MaxClock
    /\ clock' = clock + 1
    /\ pc' = "cpu"
    /\ resp' = NoResp
    /\ UNCHANGED <<probe, rows, seq, s_cpu, s_mem, s_disk, log>>

\* The process ends and main runs again on the same history.db, up to the
\* creation of the table; starting up takes a tick of the clock.
Restart ==
    /\ clock < MaxClock
    /\ clock' = clock + 1
    /\ rows' = ensureSchema(rows)
    /\ pc' = "boot"
    /\ s_cpu' = F64Zero
    /\ s_mem' = NoMem
    /\ s_disk' = NoDisk
    /\ resp' = NoResp
    /\ UNCHANGED <<probe, seq, log>>

\* The response of the handled request has been sent.
Deliver ==
    /\ resp # NoResp
    /\ resp' = NoResp
    /\ UNCHANGED <<probe, rows, seq, clock, pc, s_cpu, s_mem, s_disk, log>>

\* GET /history
GetHistory ==
    /\ resp = NoResp
    /\ \E params \in Requests, open \in {"opened", "open_failed"} :
          IF open = "open_failed"
          THEN resp' = HistoryError("open")
          ELSE \E order \in DescOrders(rows, Selected(params, rows)) :
                  resp' = HistoryResponse(params, rows, order)
    /\ UNCHANGED <<probe, rows, seq, clock, pc, s_cpu, s_mem, s_disk, log>>

Next ==
    \/ Spawn
    \/ SampleCpu
    \/ SampleMem
    \/ SampleDisk
    \/ Persist
    \/ Sleep
    \/ Restart
    \/ GetHistory
    \/ Deliver

Spec == Init /\ [][Next]_vars

(***************************************************************************)
(* The live endpoints, each probed with every content of its source.       *)
(***************************************************************************)
LiveInit ==
    /\ probe \in Probes
    /\ resp = NoResp
    /\ rows = <<>>
    /\ seq = 0
    /\ clock = 0
    /\ pc = "boot"
    /\ s_cpu = F64Zero
    /\ s_mem = NoMem
    /\ s_disk = NoDisk
    /\ log = <<>>

store == <<rows, seq, clock, pc, s_cpu, s_mem, s_disk, log>>

GetCpuTemp ==
    /\ resp = NoResp
    /\ resp' = get_cpu_temp(probe.thermal)
    /\ UNCHANGED <<probe, store>>
GetFanSpeed ==
    /\ resp = NoResp
    /\ resp' = get_fan_speed(probe.fan)
    /\ UNCHANGED <<probe, store>>
GetUptime ==
    /\ resp = NoResp
    /\ resp' = get_uptime(probe.uptime)
    /\ UNCHANGED <<probe, store>>
GetMemUsage ==
    /\ resp = NoResp
    /\ resp' = get_mem_usage(probe.meminfo)
    /\ UNCHANGED <<probe, store>>
GetDiskUsage ==
    /\ resp = NoResp
    /\ resp' = get_disk_usage(probe.df)
    /\ UNCHANGED <<probe, store>>
GetCpuUsage ==
    /\ resp = NoResp
    /\ resp' = get_cpu_usage(probe.stat)
    /\ UNCHANGED <<probe, store>>

LiveNext ==
    \/ GetCpuTemp
    \/ GetFanSpeed
    \/ GetUptime
    \/ GetMemUsage
    \/ GetDiskUsage
    \/ GetCpuUsage
    \/ Deliver

LiveSpec == LiveInit /\ [][LiveNext]_vars

(***************************************************************************)
(* Properties of the history store and query (specification Spec).         *)
(***************************************************************************)
\* The request was answered from the store: the connection opened.
Answered == resp.ep = "history" /\ resp.err # "open"

\* The instant an ISO-8601 parameter of a request denotes.
InstantOf(text) == CHOOSE c \in 0..MaxClock : Iso8601(c) = text

\* The k-th row of the response is the snapshot of log entry e, every field
\* as it was given to the INSERT and the timestamp the store assigned then.
SameSnapshot(out, e) ==
    /\ out.cpu_usage = e.cpu
    /\ out.mem_total = e.mem.total
    /\ out.mem_used = e.mem.used
    /\ IntToDec(out.disk_total) = StripZeros(e.disk.total)
    /\ IntToDec(out.disk_used) = StripZeros(e.disk.used)
    /\ IntToDec(out.disk_free) = StripZeros(e.disk.free)
    /\ out.timestamp = CURRENT_TIMESTAMP(e.at)

Returned(i) ==
    /\ resp.kind = "data"
    /\ \E k \in 1..Len(resp.data) : resp.data[k].timestamp = CURRENT_TIMESTAMP(log[i].at)

\* C1: with from and to given as ISO-8601 instants and a limit of at least the
\* number of stored snapshots, a stored snapshot is returned if and only if
\* from <= its timestamp <= to, the bounds included.
C1_RangeFilter ==
    (Answered /\ resp.params.from.some /\ resp.params.to.some /\ resp.limit >= Len(log))
    => \A i \in 1..Len(log) :
          Returned(i) <=> /\ InstantOf(resp.params.from.v) <= log[i].at
                          /\ log[i].at <= InstantOf(resp.params.to.v)

\* The stored snapshots inside the range of the answered request, the range
\* taken as the store compares it, most recent first.
InRange == {i \in 1..Len(log) : Between(log[i].row.timestamp, resp.from, resp.to)}
MostRecentFirst ==
    CHOOSE o \in [1..Cardinality(InRange) -> InRange] :
        \A i, j \in 1..Cardinality(InRange) : i < j => log[o[i]].at > log[o[j]].at

\* C2: the query returns the in-range snapshots most recent first, cut to the
\* limit (100 when none is given): exactly the min(limit, number in range)
\* most recent ones.
C2_OrderedAndTruncated ==
    Answered
    => /\ resp.kind = "data"
       /\ resp.limit = (IF resp.params.limit.some THEN ParseNat(resp.params.limit.v) ELSE 100)
       /\ Len(resp.data) = Min(resp.limit, Cardinality(InRange))
       /\ \A k \in 1..Len(resp.data) :
             resp.data[k].timestamp = CURRENT_TIMESTAMP(log[MostRecentFirst[k]].at)

\* C3: after N successful appends a query with limit = N and a range covering
\* every stored timestamp returns N rows, most recent first, each with the
\* values that were appended; none is lost, altered or turned into an error.
C3_RoundTrip ==
    (Answered /\ resp.limit = Len(log) /\ Cardinality(InRange) = Len(log))
    => /\ resp.kind = "data"
       /\ Len(resp.data) = Len(log)
       /\ \A k \in 1..Len(resp.data) : SameSnapshot(resp.data[k], log[Len(log) + 1 - k])

\* C4: no failure of a cycle ends the sampler task: the loop is never left.
C4_SamplerSurvives == pc # "panicked"

\* C6: every row a query returns is the complete snapshot of one sampler
\* cycle: its six metrics and its timestamp are those of one INSERT.
C6_NoPartialSnapshot ==
    (resp.ep = "history" /\ resp.kind = "data")
    => \A k \in 1..Len(resp.data) : \E i \in 1..Len(log) : SameSnapshot(resp.data[k], log[i])

\* A query answered with a snapshot while the sampler is in the middle of a
\* later cycle, its locals half filled.
C6_Witness ==
    /\ resp.ep = "history" /\ resp.kind = "data" /\ Len(resp.data) >= 1
    /\ pc = "persist"

\* C7: without `to` the upper bound of the comparison is the instant of the
\* query, a timestamp and not the token "now"; without `from` the lower bound
\* is 1970-01-01T00:00:00Z.
C7_DefaultBounds ==
    Answered
    => /\ ~resp.params.to.some => resp.to \in {Iso8601(clock), CURRENT_TIMESTAMP(clock)}
       /\ ~resp.params.from.some => resp.from = first

\* C8: every snapshot ever stored is still in the table, unchanged, whatever
\* appends, queries and restarts followed, and ids grow strictly: none is
\* given out twice.
C8_AppendOnly ==
    /\ \A i \in 1..Len(log) : \E j \in 1..Len(rows) : rows[j] = log[i].row
    /\ \A i, j \in 1..Len(log) : i < j => log[i].row.id < log[j].row.id
    /\ \A i \in 1..Len(log) : log[i].row.id <= seq

\* main has run again on a table of two snapshots and created its schema.
C8_Witness ==
    /\ Len(log) = 2 /\ Len(rows) = 2
    /\ pc = "boot"
    /\ log[2].row.id > log[1].row.id

(***************************************************************************)
(* Properties of the live endpoints (specification LiveSpec).              *)
(***************************************************************************)
\* The endpoint answered and its source could not be read: the file read
\* failed, or df could not be run or exited with a failure status.
SourceFailed ==
    \/ resp.ep = "cpu_temp" /\ ~probe.thermal.ok
    \/ resp.ep = "fan_speed" /\ ~probe.fan.ok
    \/ resp.ep = "uptime" /\ ~probe.uptime.ok
    \/ resp.ep = "mem_usage" /\ ~probe.meminfo.ok
    \/ resp.ep = "disk_usage" /\ probe.df.run # "ok"
    \/ resp.ep = "cpu_usage" /\ ~probe.stat.ok

CpuFields == probe.stat.lines[CpuLineOf(probe.stat.lines)].fields
WellFormedCpu ==
    /\ probe.stat.ok
    /\ CpuLineOf(probe.stat.lines) # 0
    /\ Len(CpuFields) = 7
    /\ \A k \in 1..7 : IsDigits(CpuFields[k])
CpuTotal ==
    ParseNat(CpuFields[1]) + ParseNat(CpuFields[2]) + ParseNat(CpuFields[3])
    + ParseNat(CpuFields[4]) + ParseNat(CpuFields[5]) + ParseNat(CpuFields[6])
    + ParseNat(CpuFields[7])

\* C9: on a cpu line of seven unsigned integers the usage is
\* (total - idle) / total * 100 when total > 0, and when total = 0 it is an
\* error or exactly 0, never NaN.
C9_CpuFormulaGuarded ==
    (resp.ep = "cpu_usage" /\ WellFormedCpu)
    => IF CpuTotal > 0
       THEN resp.kind = "ok" /\ resp.f = Frac(100 * (CpuTotal - ParseNat(CpuFields[4])), CpuTotal)
       ELSE resp.kind = "error" \/ (resp.kind = "ok" /\ resp.f = F64Zero)

\* The kilobyte texts of the MemTotal: and MemAvailable: lines.
MemTotalText ==
    StripZeros(probe.meminfo.lines[MemTotalLineOf(probe.meminfo.lines)].fields[1])
MemAvailableText ==
    StripZeros(probe.meminfo.lines[MemAvailableLineOf(probe.meminfo.lines)].fields[1])
WellFormedMem ==
    /\ probe.meminfo.ok
    /\ MemTotalLineOf(probe.meminfo.lines) # 0
    /\ MemAvailableLineOf(probe.meminfo.lines) # 0
    /\ Len(probe.meminfo.lines[MemTotalLineOf(probe.meminfo.lines)].fields) >= 1
    /\ Len(probe.meminfo.lines[MemAvailableLineOf(probe.meminfo.lines)].fields) >= 1
    /\ IsDigits(MemTotalText) /\ IsDigits(MemAvailableText)

\* C10: for all non-negative kilobyte values, those beyond 32 bits included,
\* mem_total is the total read, mem_used is total - available and
\* mem_percent is round(mem_used / mem_total * 100).
C10_MemoryArithmetic ==
    (resp.ep = "mem_usage" /\ WellFormedMem)
    => /\ resp.kind = "ok"
       /\ IntToDec(resp.ints[2]) = MemTotalText
       /\ (FitsI32(MemTotalText) /\ FitsI32(MemAvailableText))
          => /\ resp.ints[1] = ParseNat(MemTotalText) - ParseNat(MemAvailableText)
             /\ ParseNat(MemTotalText) > 0
                => resp.ints[3] = (200 * resp.ints[1] + ParseNat(MemTotalText))
                                  \div (2 * ParseNat(MemTotalText))

====
